---- MODULE Spec2Model ----
(***************************************************************************)
(* RemoveRiversfromWaterBodyPolygons.ipynb: the function                   *)
(* Filter_shapefile_by_intersection and the notebook cells that use it.    *)
(*                                                                         *)
(* A geometry is the non-empty set of grid cells it covers, read in the    *)
(* coordinate reference system of its frame.  A frame (GeoDataFrame) is a  *)
(* crs tag and a sequence of rows; a row is its index label (id), its      *)
(* geometry and its attribute column UID.  A file on disk holds a crs and  *)
(* the rows' columns (geom, UID); a shapefile stores no index.             *)
(***************************************************************************)
EXTENDS Naturals, Sequences, FiniteSets

VARIABLES
    pc,                          \* "call": a direct call site; "cell3".."done": the notebook
    gpdData, gpdFilter,          \* arguments of the current / last invocation
    filtertype, invertMask, returnInverse,
    outcome, warnings,           \* how the last invocation ended, what it warned about
    gpdDataFiltered, IntersectIndex, gpdDataInverse,   \* what it returned
    riversFile, waterFile,       \* the two shapefiles on disk (inputs of the notebook)
    MajorRivers, WaterPolygons,  \* notebook globals
    WaterBodiesBigRiverFiltered, Index,
    outFile                      \* the shapefile the last cell writes

vars == <<pc, gpdData, gpdFilter, filtertype, invertMask, returnInverse,
          outcome, warnings, gpdDataFiltered, IntersectIndex, gpdDataInverse,
          riversFile, waterFile, MajorRivers, WaterPolygons,
          WaterBodiesBigRiverFiltered, Index, outFile>>

callVars == <<gpdData, gpdFilter, filtertype, invertMask, returnInverse,
              outcome, warnings, gpdDataFiltered, IntersectIndex, gpdDataInverse>>

----------------------------------------------------------------------------
(* Bounds of the model *)

\* total number of geometries in the two collections of one run
MaxGeometries == 3

\* number of grid cells of the plane
NumCells == 2

----------------------------------------------------------------------------
(* Values *)

EPSG3577 == "epsg:3577"

\* the system the shapefiles may come in (GDA94) besides the target one
CRSs == {"epsg:4283", EPSG3577}

FilterTypes == {"intersects", "contains", "within"}

Cells == 1..NumCells

\* a line or polygon covers a run of adjacent cells
Geoms == {lo..hi : lo \in Cells, hi \in Cells} \ {{}}

\* an unbound name / a file that does not exist
NoFrame == [crs |-> "none", rows |-> <<>>]

Range(s) == {s[i] : i \in 1..Len(s)}

Ids(frame) == {frame.rows[i].id : i \in 1..Len(frame.rows)}

Min(S) == CHOOSE m \in S : \A x \in S : m <= x

\* sorted(...) of a set of integers: the ascending list
RECURSIVE SortedSeq(_)
SortedSeq(S) == IF S = {} THEN <<>>
                ELSE <<Min(S)>> \o SortedSeq(S \ {Min(S)})

UidOf(i) == <<"UID", i>>

----------------------------------------------------------------------------
(* Geometry library: predicates and reprojection *)

Intersects(a, b) == a \cap b # {}
Contains(a, b) == b \subseteq a
Within(a, b) == a \subseteq b

\* left `op` right
Holds(op, left, right) ==
    CASE op = "intersects" -> Intersects(left, right)
      [] op = "contains"   -> Contains(left, right)
      [] op = "within"     -> Within(left, right)

\* coordinates of one cell moved from one system to the other
Transform(from, to, c) == IF from = to THEN c ELSE NumCells + 1 - c

\* to_crs left out: the frame stays as it was read
ToCrsNoOp(frame, crs) == frame

\* GeoDataFrame.to_crs: every geometry re-expressed in crs, index and columns kept
ToCrs(frame, crs) ==
    [crs  |-> crs,
     rows |-> [k \in 1..Len(frame.rows) |->
                 [frame.rows[k] EXCEPT
                    !.geom = {Transform(frame.crs, crs, c) : c \in frame.rows[k].geom}]]]

\* gp.read_file / GeoDataFrame.from_file: rows get the RangeIndex 0..n-1
FromFile(file) ==
    [crs  |-> file.crs,
     rows |-> [k \in 1..Len(file.rows) |->
                 [id |-> k - 1, geom |-> file.rows[k].geom, UID |-> file.rows[k].UID]]]

\* GeoDataFrame.to_file: the columns of every row, in order; the index is not stored
ToFile(frame) ==
    [crs  |-> frame.crs,
     rows |-> [k \in 1..Len(frame.rows) |->
                 [geom |-> frame.rows[k].geom, UID |-> frame.rows[k].UID]]]

----------------------------------------------------------------------------
(* Filter_shapefile_by_intersection *)

\* all (left position, right position) pairs, left-major
AllPairs(nl, nr) ==
    [k \in 1..(nl * nr) |-> <<((k - 1) \div nr) + 1, ((k - 1) % nr) + 1>>]

\* gp.sjoin(left, right, how="inner", op=op): one row per pair of a left and a
\* right row with  left.geom `op` right.geom
SJoin(left, right, op) ==
    LET pairs == AllPairs(Len(left.rows), Len(right.rows))
        Match(p) == Holds(op, left.rows[p[1]].geom, right.rows[p[2]].geom)
        hit == SelectSeq(pairs, Match)
    IN  [k \in 1..Len(hit) |->
           [index_left  |-> left.rows[hit[k][1]].id,
            index_right |-> right.rows[hit[k][2]].id]]

\* the index_right column taken as it comes, neither deduplicated nor sorted
IntersectIndexRaw(Intersections) ==
    [k \in 1..Len(Intersections) |-> Intersections[k].index_right]

\* sorted(set(Intersections['index_right']))
IntersectIndexOf(Intersections) ==
    SortedSeq({Intersections[k].index_right : k \in 1..Len(Intersections)})

\* gpdData.index.isin(values): one boolean per row
IsIn(frame, values) ==
    [k \in 1..Len(frame.rows) |-> frame.rows[k].id \in Range(values)]

\* the '~' left out
InvertDropped(mask) == mask

\* ~mask
Invert(mask) == [k \in 1..Len(mask) |-> ~mask[k]]

\* the rows picked, renumbered from 0 (reset_index)
LocReindexed(frame, mask) ==
    LET Picked(k) == mask[k]
        idx == SelectSeq([k \in 1..Len(frame.rows) |-> k], Picked)
    IN  [crs  |-> frame.crs,
         rows |-> [k \in 1..Len(idx) |-> [frame.rows[idx[k]] EXCEPT !.id = k - 1]]]

\* gpdData.loc[mask]: the rows whose mask is true, in order, unchanged
Loc(frame, mask) ==
    LET Picked(k) == mask[k]
        idx == SelectSeq([k \in 1..Len(frame.rows) |-> k], Picked)
    IN  [crs  |-> frame.crs,
         rows |-> [k \in 1..Len(idx) |-> frame.rows[idx[k]]]]

\* the '~' on the wrong branch
KeepMaskSwapped(frame, index, invert) ==
    IF invert THEN IsIn(frame, index) ELSE Invert(IsIn(frame, index))

\* the mask of gpdDataFiltered
KeepMask(frame, index, invert) ==
    IF invert THEN Invert(IsIn(frame, index)) ELSE IsIn(frame, index)

\* the '~' not swapped: the same mask as gpdDataFiltered's
InverseMaskNotSwapped(frame, index, invert) ==
    IF invert THEN Invert(IsIn(frame, index)) ELSE IsIn(frame, index)

\* the mask of gpdDataInverse
InverseMask(frame, index, invert) ==
    IF invert THEN IsIn(frame, index) ELSE Invert(IsIn(frame, index))

\* the index list made to name the identifiers removed from gpdDataFiltered
FilterReturningRemoved(data, filter, ftype, invert, inverse) ==
    LET Intersections == SJoin(filter, data, ftype)
        index == IntersectIndexOf(Intersections)
        kept == Loc(data, KeepMask(data, index, invert))
    IN  [outcome         |-> "returned",
         warnings        |-> {},
         gpdDataFiltered |-> kept,
         IntersectIndex  |-> SortedSeq(Ids(data) \ Ids(kept)),
         gpdDataInverse  |-> IF inverse
                             THEN Loc(data, InverseMask(data, index, invert))
                             ELSE NoFrame]

\* an emptiness check in front of the join
FilterRejectingEmpty(data, filter, ftype, invert, inverse) ==
    LET Intersections == SJoin(filter, data, ftype)
        index == IntersectIndexOf(Intersections)
    IN  IF data.rows = <<>> \/ filter.rows = <<>>
        THEN [outcome         |-> "InvalidInput",
              warnings        |-> {},
              gpdDataFiltered |-> NoFrame,
              IntersectIndex  |-> <<>>,
              gpdDataInverse  |-> NoFrame]
        ELSE [outcome         |-> "returned",
              warnings        |-> {},
              gpdDataFiltered |-> Loc(data, KeepMask(data, index, invert)),
              IntersectIndex  |-> index,
              gpdDataInverse  |-> IF inverse
                                  THEN Loc(data, InverseMask(data, index, invert))
                                  ELSE NoFrame]

\* the function: no check of the inputs is made (the crs assertion is
\* commented out), nothing is raised, nothing is warned about
Filter_shapefile_by_intersection(data, filter, ftype, invert, inverse) ==
    LET Intersections == SJoin(filter, data, ftype)
        index == IntersectIndexOf(Intersections)
    IN  [outcome         |-> "returned",
         warnings        |-> {},
         gpdDataFiltered |-> Loc(data, KeepMask(data, index, invert)),
         IntersectIndex  |-> index,
         gpdDataInverse  |-> IF inverse
                             THEN Loc(data, InverseMask(data, index, invert))
                             ELSE NoFrame]

----------------------------------------------------------------------------
(* Initial states *)

\* frames of n rows whose index labels are first..first+n-1: a frame as read
\* (first = 0), or what is left of one whose first row was dropped before
Frames(n) ==
    {[crs  |-> c,
      rows |-> [k \in 1..n |->
                  [id |-> first + k - 1, geom |-> g[k], UID |-> UidOf(first + k - 1)]]] :
        c \in CRSs, first \in {0, 1}, g \in [1..n -> Geoms]}

\* shapefiles of n features
Files(n) ==
    {[crs  |-> c,
      rows |-> [k \in 1..n |-> [geom |-> g[k], UID |-> UidOf(k)]]] :
        c \in CRSs, g \in [1..n -> Geoms]}

NotCalled ==
    /\ invertMask = TRUE
    /\ returnInverse = FALSE
    /\ outcome = "idle"
    /\ warnings = {}
    /\ gpdDataFiltered = NoFrame
    /\ IntersectIndex = <<>>
    /\ gpdDataInverse = NoFrame

NotebookFresh ==
    /\ MajorRivers = NoFrame
    /\ WaterPolygons = NoFrame
    /\ WaterBodiesBigRiverFiltered = NoFrame
    /\ Index = <<>>
    /\ outFile = NoFrame

\* a call site of the function: a target frame whose labels need not be
\* 0..n-1, a filter frame as read from a file, and the predicate it joins on
CallSiteInit ==
    /\ pc = "call"
    /\ filtertype \in FilterTypes
    /\ \E t \in 0..MaxGeometries : \E f \in 0..(MaxGeometries - t) :
          /\ gpdData \in Frames(t)
          /\ gpdFilter \in {FromFile(file) : file \in {x \in Files(f) : x.crs = EPSG3577}}
    /\ riversFile = NoFrame
    /\ waterFile = NoFrame
    /\ NotCalled
    /\ NotebookFresh

\* a fresh notebook session: the two shapefiles are on disk
NotebookInit ==
    /\ pc = "cell3"
    /\ \E t \in 0..MaxGeometries : \E f \in 0..(MaxGeometries - t) :
          /\ waterFile \in Files(t)
          /\ riversFile \in Files(f)
    /\ gpdData = NoFrame
    /\ gpdFilter = NoFrame
    /\ filtertype = "intersects"
    /\ NotCalled
    /\ NotebookFresh

Init == CallSiteInit \/ NotebookInit

----------------------------------------------------------------------------
(* Actions *)

Returned(r) ==
    /\ outcome' = r.outcome
    /\ warnings' = r.warnings
    /\ gpdDataFiltered' = r.gpdDataFiltered
    /\ IntersectIndex' = r.IntersectIndex
    /\ gpdDataInverse' = r.gpdDataInverse

nbVars == <<riversFile, waterFile, MajorRivers, WaterPolygons,
            WaterBodiesBigRiverFiltered, Index, outFile>>

\* a call that drops the matched rows from its argument in place
CallInPlace ==
    /\ pc = "call"
    /\ \E im \in BOOLEAN, ri \in BOOLEAN :
          LET r == Filter_shapefile_by_intersection(gpdData, gpdFilter, filtertype, im, ri)
          IN  /\ invertMask' = im
              /\ returnInverse' = ri
              /\ Returned(r)
              /\ gpdData' = Loc(gpdData, Invert(IsIn(gpdData, r.IntersectIndex)))
    /\ UNCHANGED <<pc, gpdFilter, filtertype>>
    /\ UNCHANGED nbVars

\* Filter_shapefile_by_intersection(gpdData, gpdFilter, filtertype, invertMask,
\* returnInverse) called on the two frames, with any values of the two flags
Call ==
    /\ pc = "call"
    /\ \E im \in BOOLEAN, ri \in BOOLEAN :
          /\ invertMask' = im
          /\ returnInverse' = ri
          /\ Returned(Filter_shapefile_by_intersection(gpdData, gpdFilter, filtertype, im, ri))
    /\ UNCHANGED <<pc, gpdData, gpdFilter, filtertype>>
    /\ UNCHANGED nbVars

\* cell [3]: read the river lines and reproject them
ReadRivers ==
    /\ pc = "cell3"
    /\ MajorRivers' = ToCrs(FromFile(riversFile), EPSG3577)
    /\ pc' = "cell4"
    /\ UNCHANGED callVars
    /\ UNCHANGED <<riversFile, waterFile, WaterPolygons,
                   WaterBodiesBigRiverFiltered, Index, outFile>>

\* cell [4]: read the waterbodies and reproject them
ReadWaterbodies ==
    /\ pc = "cell4"
    /\ WaterPolygons' = ToCrs(FromFile(waterFile), EPSG3577)
    /\ pc' = "cell5"
    /\ UNCHANGED callVars
    /\ UNCHANGED <<riversFile, waterFile, MajorRivers,
                   WaterBodiesBigRiverFiltered, Index, outFile>>

\* cell [7]: WaterBodiesBigRiverFiltered, Index =
\*           Filter_shapefile_by_intersection(WaterPolygons, MajorRivers)
FilterRivers ==
    /\ pc = "cell5"
    /\ gpdData' = WaterPolygons
    /\ gpdFilter' = MajorRivers
    /\ filtertype' = "intersects"
    /\ invertMask' = TRUE
    /\ returnInverse' = FALSE
    /\ LET r == Filter_shapefile_by_intersection(WaterPolygons, MajorRivers,
                                                 "intersects", TRUE, FALSE)
       IN  /\ Returned(r)
           /\ WaterBodiesBigRiverFiltered' = r.gpdDataFiltered
           /\ Index' = r.IntersectIndex
    /\ pc' = "cell6"
    /\ UNCHANGED <<riversFile, waterFile, MajorRivers, WaterPolygons, outFile>>

\* cell [14]: tag the result with the crs and write it out
WriteShapefile ==
    /\ pc = "cell6"
    /\ WaterBodiesBigRiverFiltered' = [WaterBodiesBigRiverFiltered EXCEPT !.crs = EPSG3577]
    /\ outFile' = ToFile([WaterBodiesBigRiverFiltered EXCEPT !.crs = EPSG3577])
    /\ pc' = "done"
    /\ UNCHANGED callVars
    /\ UNCHANGED <<riversFile, waterFile, MajorRivers, WaterPolygons, Index>>

Next ==
    \/ Call
    \/ ReadRivers
    \/ ReadWaterbodies
    \/ FilterRivers
    \/ WriteShapefile

Spec == Init /\ [][Next]_vars

----------------------------------------------------------------------------
(* Properties *)

Called == outcome # "idle"

\* the Match Set: the target identifiers for which some filter geometry
\* satisfies the predicate against the target geometry
MatchSet(data, filter, op) ==
    {data.rows[j].id : j \in {j \in 1..Len(data.rows) :
        \E i \in 1..Len(filter.rows) :
            Holds(op, filter.rows[i].geom, data.rows[j].geom)}}

\* C1: with returnInverse = true every target identifier is in exactly one of
\* kept and discarded: the two are disjoint and together they are the whole
\* target collection.
C1_KeptDiscardedPartition ==
    (Called /\ returnInverse) =>
        /\ Ids(gpdDataFiltered) \cap Ids(gpdDataInverse) = {}
        /\ Ids(gpdDataFiltered) \cup Ids(gpdDataInverse) = Ids(gpdData)
        /\ Range(gpdDataFiltered.rows) \cup Range(gpdDataInverse.rows) = Range(gpdData.rows)
        /\ Len(gpdDataFiltered.rows) + Len(gpdDataInverse.rows) = Len(gpdData.rows)

C1_Witness ==
    /\ Called
    /\ returnInverse
    /\ gpdDataFiltered.rows # <<>>
    /\ gpdDataInverse.rows # <<>>

\* C2: with invertMask = true kept holds exactly the targets whose identifier
\* is not in the Match Set, with invertMask = false exactly those whose
\* identifier is in it.
C2_KeptFollowsInvertMask ==
    Called =>
        LET M == MatchSet(gpdData, gpdFilter, filtertype)
            InKept(r) == IF invertMask THEN r.id \notin M ELSE r.id \in M
        IN  gpdDataFiltered.rows = SelectSeq(gpdData.rows, InKept)

\* target {A not touching, B crossing line L}, invertMask = true: kept = {A}
C2_Witness ==
    /\ pc = "call"
    /\ Called
    /\ filtertype = "intersects"
    /\ invertMask
    /\ Len(gpdData.rows) = 2
    /\ Len(gpdFilter.rows) = 1
    /\ ~Intersects(gpdFilter.rows[1].geom, gpdData.rows[1].geom)
    /\ Intersects(gpdFilter.rows[1].geom, gpdData.rows[2].geom)
    /\ gpdDataFiltered.rows = <<gpdData.rows[1]>>
    /\ IntersectIndex = <<gpdData.rows[2].id>>

\* C3: for the same target, filter and predicate the returned IntersectIndex
\* is the same whatever invertMask and returnInverse are: a further call that
\* changes only the flags returns the list the call before it returned.
C3_ExcludedIdsIgnoreFlags ==
    [][(/\ outcome = "returned"
        /\ outcome' = "returned"
        /\ gpdData' = gpdData
        /\ gpdFilter' = gpdFilter
        /\ filtertype' = filtertype) => IntersectIndex' = IntersectIndex]_vars

\* invertMask = false: the list names the identifiers kept, not those removed
C3_Witness ==
    /\ pc = "call"
    /\ Called
    /\ ~invertMask
    /\ IntersectIndex # <<>>
    /\ Ids(gpdDataFiltered) = Range(IntersectIndex)
    /\ Ids(gpdData) \ Ids(gpdDataFiltered) # {}

\* C4: IntersectIndex holds a target identifier if and only if some filter
\* geometry (left operand) satisfies the predicate against that target
\* geometry (right operand), and holds each such identifier once.
C4_ExcludedIdsAreMatchSet ==
    Called =>
        /\ Range(IntersectIndex) = MatchSet(gpdData, gpdFilter, filtertype)
        /\ Len(IntersectIndex) = Cardinality(Range(IntersectIndex))

\* a target that matches two filter geometries, under a predicate that tells
\* the operands apart
C4_Witness ==
    /\ Called
    /\ filtertype = "contains"
    /\ \E j \in 1..Len(gpdData.rows) :
          /\ \E i1, i2 \in 1..Len(gpdFilter.rows) :
                /\ i1 # i2
                /\ Contains(gpdFilter.rows[i1].geom, gpdData.rows[j].geom)
                /\ Contains(gpdFilter.rows[i2].geom, gpdData.rows[j].geom)
                /\ ~Contains(gpdData.rows[j].geom, gpdFilter.rows[i1].geom)
          /\ IntersectIndex = <<gpdData.rows[j].id>>

\* C5 as stated: an empty target or filter collection makes the call fail
\* with InvalidInput.
C5_EmptyInputRaisesInvalidInput ==
    (Called /\ (gpdData.rows = <<>> \/ gpdFilter.rows = <<>>)) =>
        outcome = "InvalidInput"

\* C5, amended: an empty target or filter collection does not make the call
\* fail; it returns an empty IntersectIndex, and kept is the whole target
\* collection when invertMask is true and empty when it is false.
C5_EmptyInputReturns ==
    (Called /\ (gpdData.rows = <<>> \/ gpdFilter.rows = <<>>)) =>
        /\ outcome = "returned"
        /\ IntersectIndex = <<>>
        /\ gpdDataFiltered.rows = IF invertMask THEN gpdData.rows ELSE <<>>

C5_Witness ==
    /\ Called
    /\ gpdData.rows = <<>>
    /\ gpdFilter.rows # <<>>

\* C6: an empty filter collection gives an empty Match Set, and with
\* invertMask = true kept is the full target collection.
C6_EmptyFilterKeepsAll ==
    (Called /\ gpdFilter.rows = <<>>) =>
        /\ IntersectIndex = <<>>
        /\ invertMask => gpdDataFiltered = gpdData

C6_Witness ==
    /\ Called
    /\ gpdFilter.rows = <<>>
    /\ invertMask
    /\ Len(gpdData.rows) >= 2

\* C7 as stated: when the two collections carry different coordinate
\* reference systems the call surfaces a CoordinateSystemMismatch, as an
\* error or at least as a warning.
C7_CrsMismatchSurfaced ==
    (Called /\ gpdData.crs # gpdFilter.crs) =>
        \/ outcome = "CoordinateSystemMismatch"
        \/ "CoordinateSystemMismatch" \in warnings

\* C8: every row of kept and of discarded is a row of the target collection,
\* with the identifier, geometry and attributes it has there and in the order
\* it has there; the file written holds exactly the kept rows, each with the
\* UID and geometry it has in the unfiltered dataset.
C8_RowsSelectedNotAltered ==
    /\ Called =>
          LET InKept(r) == r \in Range(gpdDataFiltered.rows)
              InInverse(r) == r \in Range(gpdDataInverse.rows)
          IN  /\ gpdDataFiltered.rows = SelectSeq(gpdData.rows, InKept)
              /\ returnInverse => gpdDataInverse.rows = SelectSeq(gpdData.rows, InInverse)
    /\ pc = "done" =>
          LET NotOnRiver(r) == r.id \notin Range(Index)
              keptRows == SelectSeq(WaterPolygons.rows, NotOnRiver)
          IN  /\ Len(outFile.rows) = Len(keptRows)
              /\ \A k \in 1..Len(keptRows) :
                    /\ outFile.rows[k].UID = keptRows[k].UID
                    /\ outFile.rows[k].geom = keptRows[k].geom
              /\ WaterBodiesBigRiverFiltered.rows = keptRows

\* the first waterbody lies on a river and is dropped, a later one is written
C8_Witness ==
    /\ pc = "done"
    /\ outFile.rows # <<>>
    /\ Index # <<>>
    /\ WaterBodiesBigRiverFiltered.rows[1].id # 0

\* C9: a call leaves both input collections as they were, and a further call
\* with the same inputs and parameters returns what the call before returned.
C9_InputsUntouched ==
    [][/\ pc = "call" =>
             /\ gpdData' = gpdData
             /\ gpdFilter' = gpdFilter
             /\ (Called /\ invertMask' = invertMask /\ returnInverse' = returnInverse
                        /\ filtertype' = filtertype) =>
                    /\ gpdDataFiltered' = gpdDataFiltered
                    /\ IntersectIndex' = IntersectIndex
                    /\ gpdDataInverse' = gpdDataInverse
       /\ pc = "cell5" =>
             /\ WaterPolygons' = WaterPolygons
             /\ MajorRivers' = MajorRivers
             /\ gpdData' = WaterPolygons
             /\ gpdFilter' = MajorRivers]_vars

C9_Witness ==
    /\ pc = "call"
    /\ Called
    /\ invertMask
    /\ IntersectIndex # <<>>
    /\ Len(gpdDataFiltered.rows) < Len(gpdData.rows)
    /\ gpdDataFiltered.rows # <<>>

\* C10: in the notebook the filter runs only on the two collections
\* reprojected to EPSG:3577, the result is written only after the filter has
\* run, and what is written is tagged EPSG:3577.
C10_ReprojectFilterWrite ==
    LET Reprojected(frame, file) ==
            /\ frame.crs = EPSG3577
            /\ Len(frame.rows) = Len(file.rows)
            /\ \A k \in 1..Len(file.rows) :
                  frame.rows[k].geom =
                      {Transform(file.crs, EPSG3577, c) : c \in file.rows[k].geom}
    IN  /\ (pc # "call" /\ Called) =>
              /\ pc \in {"cell6", "done"}
              /\ Reprojected(gpdData, waterFile)
              /\ Reprojected(gpdFilter, riversFile)
        /\ pc \in {"cell6", "done"} => Called
        /\ outFile # NoFrame =>
              /\ pc = "done"
              /\ Called
              /\ outFile.crs = EPSG3577
        /\ pc = "done" => outFile.crs = EPSG3577

C10_Witness ==
    /\ pc = "done"
    /\ riversFile.crs # EPSG3577
    /\ waterFile.crs # EPSG3577
    /\ outFile.rows # <<>>
    /\ Index # <<>>

====
